---- MODULE Spec2Model ----
(***************************************************************************)
(* Model of regular_polygon_plot (src/src/main.rs): the polygon geometry   *)
(* generator, the raster compositor create_image with draw_text, and the   *)
(* PolygonApp state (sliders, Generate button, zoom clicks).               *)
(*                                                                         *)
(* Floating point.  f64/f32 values are modelled as binary floating-point   *)
(* numbers <<m, e>> (value m * 2^e) with a MantBits-bit significand and    *)
(* round-to-nearest-even after every operation, exactly as IEEE-754 does   *)
(* with 53 (24) bits.  Conversions (to_radians, to_degrees, as u32, round) *)
(* are computed on that representation, so they round as the code's do.    *)
(* Machine integers keep their width: u32 values are two 16-bit limbs,     *)
(* i32/u16/u8 arithmetic wraps or panics according to the build profile.   *)
(*                                                                         *)
(* Libraries.  The circle and edge drawing of imageproc and the glyph      *)
(* rasteriser of rusttype are not part of src/: the circle and the edges   *)
(* are entries of the canvas's operation log, and a font is the list of    *)
(* glyphs (bounding-box corner, covered pixels with coverage) it lays out  *)
(* for a label.  cos and sin are a rational approximation in fixed point.  *)
(***************************************************************************)
EXTENDS Integers, Sequences, FiniteSets, TLC

(* ------------------------------------------------------------------ *)
(* Floating-point arithmetic                                           *)
(* ------------------------------------------------------------------ *)

\* Significand widths of the modelled floating-point formats: f64 and f32.
MantBits == 12

MantBits32 == 6

Abs(i) == IF i < 0 THEN -i ELSE i

Sgn(i) == IF i < 0 THEN -1 ELSE 1

\* The one element of a singleton set.  {F(x) : x \in {e}} evaluates e once and F
\* on its value: the way a `let` binding of the source is written here.
Val(S) == CHOOSE r \in S : TRUE

RECURSIVE BitLen(_)
BitLen(i) == IF i = 0 THEN 0 ELSE 1 + Val({BitLen(j) : j \in {i \div 2}})

\* |m| / 2^s rounded to nearest, ties to even, with m's sign.
RoundHalfEvenV(m, q) ==
    LET f == Abs(m) \div q
        r == Abs(m) % q
        up == (2 * r > q) \/ (2 * r = q /\ f % 2 = 1)
    IN  Sgn(m) * (IF up THEN f + 1 ELSE f)

RoundHalfEven(m, s) == Val({RoundHalfEvenV(mm, q) : mm \in {m}, q \in {2^s}})

\* The float nearest to m * 2^e, in canonical form with a p-bit significand.
NormV(m, e, p, len) ==
    IF len > p
    THEN Val({ IF Abs(r) = 2^p THEN <<Sgn(m) * 2^(p - 1), e + (len - p) + 1>>
                               ELSE <<r, e + (len - p)>>
               : r \in {RoundHalfEven(m, len - p)} })
    ELSE <<m * 2^(p - len), e - (p - len)>>

NormP(m, e, p) ==
    Val({ IF mm = 0 THEN <<0, 0>> ELSE NormV(mm, ee, p, BitLen(Abs(mm)))
          : mm \in {m}, ee \in {e} })

\* Rounding to f64.
Norm(m, e) == NormP(m, e, MantBits)

\* Rounding to f32.
Norm32(m, e) == NormP(m, e, MantBits32)

FromInt(i) == Norm(i, 0)

FNeg(a) == <<-a[1], a[2]>>

\* a + b, correctly rounded.
FAddV(a, b) ==
    IF a[1] = 0 THEN b
    ELSE IF b[1] = 0 THEN a
    ELSE LET hi == IF a[2] >= b[2] THEN a ELSE b
             lo == IF a[2] >= b[2] THEN b ELSE a
             d  == hi[2] - lo[2]
         IN  IF d >= MantBits + 2 THEN hi
             ELSE Norm(hi[1] * 2^d + lo[1], lo[2])

FAdd(a, b) == Val({FAddV(x, y) : x \in {a}, y \in {b}})

FSub(a, b) == FAdd(a, FNeg(b))

\* a * b, correctly rounded.
FMul(a, b) == Val({Norm(x[1] * y[1], x[2] + y[2]) : x \in {a}, y \in {b}})

\* a / b (b nonzero), correctly rounded to p bits: the quotient with guard bits
\* and a sticky bit.
FDivV(a, b, p) ==
    IF a[1] = 0 THEN <<0, 0>>
    ELSE LET k   == MantBits + 3
             num == Abs(a[1]) * 2^k
             q   == num \div Abs(b[1])
             st  == IF num % Abs(b[1]) = 0 THEN 0 ELSE 1
         IN  NormP(Sgn(a[1]) * Sgn(b[1]) * (2 * q + st), a[2] - b[2] - k - 1, p)

FDivP(a, b, p) == Val({FDivV(x, y, p) : x \in {a}, y \in {b}})

FDiv(a, b) == FDivP(a, b, MantBits)

\* f32 multiplication and division.
FMul32(a, b) == Val({Norm32(x[1] * y[1], x[2] + y[2]) : x \in {a}, y \in {b}})

FDiv32(a, b) == FDivP(a, b, MantBits32)

FLt(a, b) == FSub(a, b)[1] < 0

FLe(a, b) == FSub(a, b)[1] <= 0

\* A decimal literal num/den as the compiler rounds it, to f64 and to f32.
Lit(num, den) == FDiv(FromInt(num), FromInt(den))

Lit32(num, den) == FDiv32(FromInt(num), FromInt(den))

\* Truncation toward zero, saturating to [lo, hi] (Rust's float `as` integer cast).
TruncSatV(a, lo, hi) ==
    IF a[1] = 0 THEN 0
    ELSE IF a[2] >= 0
         THEN IF BitLen(Abs(a[1])) + a[2] > 31
              THEN (IF a[1] < 0 THEN lo ELSE hi)
              ELSE LET v == a[1] * 2^a[2]
                   IN  IF v < lo THEN lo ELSE IF v > hi THEN hi ELSE v
         ELSE IF -a[2] >= MantBits THEN 0
              ELSE LET v == Sgn(a[1]) * (Abs(a[1]) \div 2^(-a[2]))
                   IN  IF v < lo THEN lo ELSE IF v > hi THEN hi ELSE v

TruncSat(a, lo, hi) == Val({TruncSatV(x, lo, hi) : x \in {a}})

\* f64::round: to the nearest integer, ties away from zero (result still a float).
FRoundV(a) ==
    IF a[1] = 0 \/ a[2] >= 0 THEN a
    ELSE IF -a[2] > MantBits THEN <<0, 0>>
    ELSE LET q == 2^(-a[2])
             f == Abs(a[1]) \div q
             r == Abs(a[1]) % q
         IN  FromInt(Sgn(a[1]) * (IF 2 * r >= q THEN f + 1 ELSE f))

FRound(a) == Val({FRoundV(x) : x \in {a}})

\* The `%` of f64 (fmod) by the integer n: exact, sign of the dividend.
FModV(a, n) ==
    IF a[1] = 0 THEN a
    ELSE IF a[2] >= 0
         THEN Norm(Sgn(a[1]) * ((Abs(a[1]) * ((2^a[2]) % n)) % n), 0)
         ELSE IF -a[2] >= MantBits THEN a
              ELSE Norm(Sgn(a[1]) * (Abs(a[1]) % (n * 2^(-a[2]))), a[2])

FMod(a, n) == Val({FModV(x, n) : x \in {a}})

(* ------------------------------------------------------------------ *)
(* Machine integers                                                    *)
(* ------------------------------------------------------------------ *)

I32Max == 2147483647

I32Min == -2147483647 - 1

Limb == 65536

\* `x as u32` for a float x: truncating, saturating; the result as <<high, low>> limbs.
CastU32V(a) ==
    IF a[1] <= 0 THEN <<0, 0>>
    ELSE IF BitLen(a[1]) + a[2] > 32 THEN <<Limb - 1, Limb - 1>>
    ELSE IF a[2] >= 16 THEN <<a[1] * 2^(a[2] - 16), 0>>
    ELSE LET v == TruncSat(a, 0, I32Max)
         IN  <<v \div Limb, v % Limb>>

CastU32(a) == Val({CastU32V(x) : x \in {a}})

\* u32 addition of a small constant: the wrapped sum and whether it overflowed.
U32AddV(u, k) ==
    LET lo == u[2] + k
        hi == u[1] + lo \div Limb
    IN  [overflow |-> hi >= Limb, value |-> <<hi % Limb, lo % Limb>>]

U32Add(u, k) == Val({U32AddV(x, k) : x \in {u}})

U32Lt(u, v) == u[1] < v[1] \/ (u[1] = v[1] /\ u[2] < v[2])

\* Ord::max on u32.
U32Max(u, v) == Val({IF U32Lt(x, y) THEN y ELSE x : x \in {u}, y \in {v}})

\* i32 addition: the wrapped sum and whether it overflowed.
Add32V(a, b) ==
    IF b > 0 /\ a > I32Max - b
    THEN [overflow |-> TRUE, value |-> ((a - I32Max) - 1) + ((b - I32Max) - 1)]
    ELSE IF b < 0 /\ a < I32Min - b
    THEN [overflow |-> TRUE, value |-> ((a + I32Max) + 1) + ((b + I32Max) + 1)]
    ELSE [overflow |-> FALSE, value |-> a + b]

Add32(a, b) == Val({Add32V(x, y) : x \in {a}, y \in {b}})

\* `x.round() as i32`.
RoundI32(a) == TruncSat(FRound(a), I32Min, I32Max)

(* ------------------------------------------------------------------ *)
(* Trigonometry (std::f64::consts::PI, f64::cos, f64::sin, conversions) *)
(* ------------------------------------------------------------------ *)

\* PI, rounded to the modelled precision.
PI == Norm(13176795, -22)

\* f64::to_radians: x * (PI / 180).
to_radians(x) == FMul(x, FDiv(PI, FromInt(180)))

\* f64::to_degrees: x * (180 / PI).
to_degrees(x) == FMul(x, FDiv(FromInt(180), PI))

\* Fixed-point angle unit used inside cos/sin: 2^-TrigFrac radians.
TrigFrac == 11

PiFx == RoundHalfEven(13176795, 22 - TrigFrac)

\* round(a * 2^TrigFrac) as an integer.
ToFixedV(a) ==
    LET s == a[2] + TrigFrac
    IN  IF s >= 0 THEN a[1] * 2^s
        ELSE IF -s > MantBits + 1 THEN 0
        ELSE RoundHalfEven(a[1], -s)

ToFixed(a) == Val({ToFixedV(x) : x \in {a}})

\* cos on [-pi/2, pi/2]: the rational approximation (pi^2 - 4x^2) / (pi^2 + x^2).
CosQ(x) ==
    Val({ FDiv(FromInt(PiFx * PiFx - 4 * v * v), FromInt(PiFx * PiFx + v * v))
          : v \in {x} })

\* cos of a fixed-point angle: reduction to [0, 2pi), then by quadrant.
CosFx(t) ==
    Val({ IF 2 * r <= PiFx THEN CosQ(r)
          ELSE IF 2 * r <= 3 * PiFx THEN FNeg(CosQ(r - PiFx))
          ELSE CosQ(r - 2 * PiFx)
          : r \in {t % (2 * PiFx)} })

FCos(theta) == CosFx(ToFixed(theta))

FSin(theta) == CosFx(ToFixed(theta) - PiFx \div 2)

(* ------------------------------------------------------------------ *)
(* generate_polygon_points                                             *)
(* ------------------------------------------------------------------ *)

\* if theta_deg < 0.0 { theta_deg += 360.0; }
wrap_negative(theta_deg) ==
    Val({IF FLt(t, <<0, 0>>) THEN FAdd(t, FromInt(360)) ELSE t : t \in {theta_deg}})

\* The loop body for index i (0-based): one vertex <<x, y, theta_deg>>.
polygon_point(i, n_sides_, diameter_, offset_deg_) ==
    LET radius     == FDiv(diameter_, FromInt(2))
        offset_rad == to_radians(offset_deg_)
        base_theta == FDiv(FMul(FMul(FromInt(2), PI), FromInt(i)), FromInt(n_sides_))
    IN  Val({ << FMul(radius, FCos(theta)),
                 FMul(radius, FSin(theta)),
                 wrap_negative(FMod(to_degrees(theta), 360)) >>
              : theta \in {FAdd(base_theta, offset_rad)} })

\* A generator that refuses fewer than three sides.
generate_polygon_points_min3(n_sides_, diameter_, offset_deg_) ==
    IF n_sides_ < 3 THEN <<>>
    ELSE [k \in 1..n_sides_ |-> polygon_point(k - 1, n_sides_, diameter_, offset_deg_)]

\* for i in 0..n_sides { points.push(..) }: the vertices in index order.
generate_polygon_points(n_sides_, diameter_, offset_deg_) ==
    [k \in 1..n_sides_ |-> polygon_point(k - 1, n_sides_, diameter_, offset_deg_)]

(* ------------------------------------------------------------------ *)
(* Canvas (RgbaImage): its size and the pixels written since the fill   *)
(* ------------------------------------------------------------------ *)

bg_color == <<220, 220, 220, 255>>

red == <<255, 0, 0, 255>>

label_color == <<0, 0, 0, 255>>

\* ImageBuffer::from_fn(w, h, |_, _| Rgba(bg_color)): every pixel is the background.
new_image(w, h) == [width |-> w, height |-> h, pixels |-> <<>>]

get_pixel(img, p) == IF p \in DOMAIN img.pixels THEN img.pixels[p] ELSE bg_color

\* The pixel map `old` with the writes of `new` applied.
Overlay(old, new) == new @@ old

\* The bounds test put_pixel / get_pixel_mut make themselves (they panic outside).
InImage(img, x, y) == x >= 0 /\ x < img.width /\ y >= 0 /\ y < img.height

(* ------------------------------------------------------------------ *)
(* draw_text                                                           *)
(* ------------------------------------------------------------------ *)

\* if px >= 0 && px < img.width() as i32 && py >= 0 && py < img.height() as i32
text_in_bounds(px, py, w, h) == px >= 0 /\ px < w /\ py >= 0 /\ py < h

\* let alpha = (gv * 255.0) as u8;
glyph_alpha(gv) == TruncSat(FMul(gv, FromInt(255)), 0, 255)

\* A blend that weights the destination by alpha instead of 255 - alpha.
blend_channel_same_weight(src, dst, alpha) ==
    LET sum == src * alpha + dst * alpha
    IN  [overflow |-> sum > 65535, value |-> ((sum % 65536) \div 255) % 256]

\* One channel: the u16 sum, whether it overflowed u16, and the stored u8.
blend_channel(src, dst, alpha) ==
    LET inv_alpha == 255 - alpha
        sum       == src * alpha + dst * inv_alpha
    IN  [overflow |-> sum > 65535, value |-> ((sum % 65536) \div 255) % 256]

\* The pixel stored for (src colour, dst pixel, alpha): three channels, alpha 255.
blend_pixel(src, dst, alpha) ==
    << blend_channel(src[1], dst[1], alpha).value,
       blend_channel(src[2], dst[2], alpha).value,
       blend_channel(src[3], dst[3], alpha).value,
       255 >>

blend_overflows(src, dst, alpha) ==
    \E c \in 1..3 : blend_channel(src[c], dst[c], alpha).overflow

\* What the callback of glyph.draw does with one covered pixel at screen position
\* pos: the bounds test, the destination pixel read when in bounds, the blend.
glyph_pixel(img, color, pos, ovf, alpha) ==
    Val({ [pos   |-> pos,
           ovf   |-> ovf,
           in    |-> in,
           alpha |-> alpha,
           src   |-> color,
           dst   |-> dst,
           out   |-> IF in THEN blend_pixel(color, dst, alpha) ELSE <<>>,
           ovf16 |-> in /\ blend_overflows(color, dst, alpha)]
          : in  \in {text_in_bounds(pos[1], pos[2], img.width, img.height)},
            dst \in {IF text_in_bounds(pos[1], pos[2], img.width, img.height)
                     THEN get_pixel(img, pos) ELSE <<>>} })

\* The callback for every covered pixel <<gx, gy, gv>> of one glyph:
\* px = x + bb.min.x + gx as i32, likewise py, and whether an i32 sum overflowed.
glyph_targets(img, glyph, x, y, color) ==
    UNION { { glyph_pixel(img, color, <<ax.value, ay.value>>,
                          bx.overflow \/ by.overflow \/ ax.overflow \/ ay.overflow, a)
              : ax \in {Add32(bx.value, g[1])},
                ay \in {Add32(by.value, g[2])},
                a  \in {glyph_alpha(g[3])} }
            : g  \in glyph.cover,
              bx \in {Add32(x, glyph.min[1])},
              by \in {Add32(y, glyph.min[2])} }

\* One glyph composited onto st.img; st carries the blend log and the panic flag.
draw_glyph(st, glyph, x, y, color, checks) ==
    IF ~glyph.has_bb THEN st
    ELSE Val({
         LET ins  == {t \in ts : t.in}
             news == [p \in {t.pos : t \in ins} |-> (CHOOSE u \in ins : u.pos = p).out]
         IN  IF checks /\ (\E t \in ts : t.ovf)
             THEN [st EXCEPT !.panic = "draw_text: i32 overflow"]
             ELSE IF \E t \in ins : ~InImage(st.img, t.pos[1], t.pos[2])
             THEN [st EXCEPT !.panic = "get_pixel_mut: out of bounds"]
             ELSE IF checks /\ (\E t \in ins : t.ovf16)
             THEN [st EXCEPT !.panic = "draw_text: u16 overflow"]
             ELSE [st EXCEPT !.img.pixels = Overlay(st.img.pixels, news),
                             !.blends = st.blends \cup
                                 {[pos |-> t.pos, alpha |-> t.alpha, src |-> t.src,
                                   dst |-> t.dst, out |-> t.out] : t \in ins},
                             !.skipped = st.skipped \cup {t.pos : t \in ts \ ins}]
         : ts \in {glyph_targets(st.img, glyph, x, y, color)} })

\* for glyph in glyphs { ... }, glyphs k..Len(font) still to draw.
RECURSIVE draw_glyphs(_, _, _, _, _, _, _)
draw_glyphs(st, font_, k, x, y, color, checks) ==
    IF k > Len(font_) \/ st.panic # "" THEN st
    ELSE Val({ draw_glyphs(s, font_, k + 1, x, y, color, checks)
               : s \in {draw_glyph(st, font_[k], x, y, color, checks)} })

draw_text(st, x, y, font_, color, checks) ==
    Val({draw_glyphs(s, font_, 1, x, y, color, checks) : s \in {st}})

(* ------------------------------------------------------------------ *)
(* create_image                                                        *)
(* ------------------------------------------------------------------ *)

\* The canvas floor and margin of `(diameter as u32 + 200).max(1000)`.
canvas_floor == 1000

canvas_margin == 200

\* A canvas without the margin: (diameter as u32).max(1000).
needed_size_no_margin(diameter_, checks) ==
    [panic |-> FALSE, value |-> U32Max(CastU32(diameter_), <<0, canvas_floor>>)]

\* let needed_size = (diameter as u32 + 200).max(1000);
\* the u32 sum wraps in a release build and panics with overflow checks on.
needed_size(diameter_, checks) ==
    LET sum == U32Add(CastU32(diameter_), canvas_margin)
    IN  [panic |-> checks /\ sum.overflow,
         value |-> U32Max(sum.value, <<0, canvas_floor>>)]

\* Marker radius: let r = 3;
marker_r == 3

\* if dx * dx + dy * dy <= r * r
marker_disc == {d \in (-marker_r..marker_r) \X (-marker_r..marker_r) :
                  d[1] * d[1] + d[2] * d[2] <= marker_r * marker_r}

\* A marker test that forgets the lower bounds.
marker_in_bounds_upper_only(xx, yy, w, h) == xx < w /\ yy < h

\* if xx >= 0 && xx < img_width as i32 && yy >= 0 && yy < img_height as i32
marker_in_bounds(xx, yy, w, h) == xx >= 0 /\ xx < w /\ yy >= 0 /\ yy < h

\* The filled red disc of one vertex (the dy/dx loops with img.put_pixel).
draw_marker(st, px, py, checks) ==
    Val({
    LET ins == {t \in ts : marker_in_bounds(t.ax.value, t.ay.value,
                                            st.img.width, st.img.height)}
        ws  == {<<t.ax.value, t.ay.value>> : t \in ins}
    IN  IF checks /\ (\E t \in ts : t.ax.overflow \/ t.ay.overflow)
        THEN [st EXCEPT !.panic = "marker: i32 overflow"]
        ELSE IF \E p \in ws : ~InImage(st.img, p[1], p[2])
        THEN [st EXCEPT !.panic = "put_pixel: out of bounds"]
        ELSE [st EXCEPT !.img.pixels = Overlay(st.img.pixels, [p \in ws |-> red]),
                        !.marker_writes = st.marker_writes \cup
                                          {<<p[1], p[2], red>> : p \in ws}]
    : ts \in {{[ax |-> Add32(px, d[1]), ay |-> Add32(py, d[2])] : d \in marker_disc}} })

\* The label of vertex i (1-based here) on the state m the marker left:
\* draw_text(&mut img, &text, px + 6, py - 12, scale, &font, Rgba([0, 0, 0, 255])).
draw_label(m, i, lx, ly, font_, checks) ==
    IF checks /\ (lx.overflow \/ ly.overflow)
    THEN [m EXCEPT !.panic = "label position: i32 overflow"]
    ELSE Val({ IF t.panic # "" THEN t
               ELSE [t EXCEPT !.ops = Append(t.ops, <<"label", i - 1>>)]
               : t \in {draw_text(m, lx.value, ly.value, font_, label_color, checks)} })

\* The body of `for (i, &(px, py)) in img_points.iter().enumerate()` for vertex i:
\* the marker, then the label at (px + 6, py - 12).
draw_vertex(st, i, img_points, font_, checks) ==
    Val({ IF m.panic # "" THEN m
          ELSE Val({ draw_label(m1, i, lx, ly, font_, checks)
                     : m1 \in {[m EXCEPT !.ops = Append(m.ops, <<"marker", i - 1>>)]} })
          : m  \in {draw_marker(st, img_points[i][1], img_points[i][2], checks)},
            lx \in {Add32(img_points[i][1], 6)},
            ly \in {Add32(img_points[i][2], -12)} })

\* The vertex loop from vertex i on.
RECURSIVE draw_vertices(_, _, _, _, _)
draw_vertices(st, i, img_points, font_, checks) ==
    IF i > Len(img_points) \/ st.panic # "" THEN st
    ELSE Val({ draw_vertices(s, i + 1, img_points, font_, checks)
               : s \in {draw_vertex(st, i, img_points, font_, checks)} })

\* let px = (cx + x).round() as i32; let py = (cy - y).round() as i32;
image_point(pt, cx, cy) == <<RoundI32(FAdd(cx, pt[1])), RoundI32(FSub(cy, pt[2]))>>

\* for i in 0..n_sides { let j = (i + 1) % n_sides; draw_line_segment_mut(..) }
edge_ops(n) == [k \in 1..n |-> <<"edge", k - 1>>]

\* A font load whose failure goes unnoticed.
load_font_unchecked(st, ok) == st

\* Font::try_from_bytes(font_data).unwrap(): the compositing state after the font
\* load, which panics when the bytes are no font.
load_font(st, ok) == IF ok THEN st ELSE [st EXCEPT !.panic = "Font::try_from_bytes: unwrap on None"]

\* What a panicking create_image leaves the caller: nothing but the unwinding.
Panicked(why) == [status |-> "panic", at |-> why]

\* The canvas after the fill, the circle and the edges, before the font is loaded.
canvas_with_outline(side, radius_i, n_sides_) ==
    [img |-> new_image(side, side),
     ops |-> <<<<"fill", 0>>, <<"circle", radius_i>>>> \o edge_ops(n_sides_),
     blends |-> {}, skipped |-> {}, marker_writes |-> {},
     panic |-> ""]

\* create_image from the canvas allocation on, for a canvas of side `side`.
render(side, points_, radius_i, ok, font_, checks) ==
    Val({ Val({ IF st.panic # "" THEN Panicked(st.panic)
                ELSE [status |-> "ok", at |-> "",
                      img |-> st.img, ops |-> st.ops, points |-> points_,
                      img_points |-> img_points, blends |-> st.blends,
                      skipped |-> st.skipped, marker_writes |-> st.marker_writes]
                : st \in {draw_vertices(
                              load_font(canvas_with_outline(side, radius_i, Len(points_)), ok),
                              1, img_points, font_, checks)} })
          : img_points \in {[k \in 1..Len(points_) |->
                               image_point(points_[k], FDiv(FromInt(side), FromInt(2)),
                                                       FDiv(FromInt(side), FromInt(2)))]} })

\* create_image(n_sides, diameter, offset_deg) -> RgbaImage.
\* ok: the font bytes parse; font_: the glyph layout the font gives a label;
\* checks: the build's overflow checks.  The canvas allocation fails for a side of
\* 2^31 or more (the buffer length overflows usize).
create_image(n_sides_, diameter_, offset_deg_, ok, font_, checks) ==
    Val({ IF ns.panic THEN Panicked("needed_size: u32 overflow")
          ELSE IF ns.value[1] >= Limb \div 2
          THEN Panicked("ImageBuffer::from_fn: allocation")
          ELSE Val({ render(ns.value[1] * Limb + ns.value[2], pts, radius_i,
                            ok, font_, checks)
                     : pts \in {generate_polygon_points(n_sides_, diameter_, offset_deg_)},
                       radius_i \in {RoundI32(FDiv(diameter_, FromInt(2)))} })
          : ns \in {needed_size(diameter_, checks)} })

(* ------------------------------------------------------------------ *)
(* State                                                               *)
(* ------------------------------------------------------------------ *)

VARIABLES
    n_sides,          \* PolygonApp.n_sides / the n_sides argument
    diameter,         \* PolygonApp.diameter / the diameter argument (f64)
    offset_deg,       \* PolygonApp.offset_deg / the offset_deg argument (f64)
    zoom,             \* PolygonApp.zoom (f32)
    image_texture,    \* PolygonApp.image_texture: NoTexture or [size |-> <<w, h>>]
    crashed,          \* "" while the process runs, else the panic that ended it
    font_ok,          \* whether the embedded meiryo.ttc bytes parse as a font
    font,             \* the glyph layout the font gives a label
    overflow_checks,  \* the build profile: TRUE panics on integer overflow, FALSE wraps
    rgba,             \* what the latest direct call of create_image returned
    prev,             \* the direct call before it: its diameter and outcome
    points            \* what a direct call of generate_polygon_points returned

vars == <<n_sides, diameter, offset_deg, zoom, image_texture, crashed,
          font_ok, font, overflow_checks, rgba, prev, points>>

build_vars == <<font_ok, font, overflow_checks>>

call_vars == <<rgba, prev, points>>

NoTexture == [size |-> <<>>]

NoImage == [status |-> "none", at |-> ""]

NoCall == [status |-> "none"]

NoPoints == [called |-> FALSE, value |-> <<>>]

\* Glyph layouts: each glyph has its bounding-box corner and the pixels its draw
\* callback reports, <<gx, gy, gv>> with coverage gv; a blank has no bounding box.
glyph(bx, by, cover) == [has_bb |-> TRUE, min |-> <<bx, by>>, cover |-> cover]

blank_glyph == [has_bb |-> FALSE, min |-> <<0, 0>>, cover |-> {}]

font_a ==
    << glyph(0, 3, {<<0, 0, FromInt(1)>>, <<1, 0, Lit(1, 2)>>}),
       blank_glyph,
       glyph(88, 10, {<<0, 0, Lit(1, 4)>>, <<3, 1, FromInt(1)>>, <<6, 1, Lit(3, 4)>>}) >>

font_b ==
    << glyph(-8, -2, {<<0, 0, Lit(1, 3)>>, <<2, 3, <<0, 0>>>>}),
       glyph(90, 12, {<<0, 0, FromInt(1)>>, <<5, 0, Lit(1, 2)>>}) >>

Fonts == {font_a, font_b}

(* ------------------------------------------------------------------ *)
(* PolygonApp: new and update                                          *)
(* ------------------------------------------------------------------ *)

\* Slider ranges of update(): 3..=20, 100.0..=5000.0, 0.0..=45.0.
n_sides_min == 3

n_sides_max == 20

diameter_min == 100

diameter_max == 5000

offset_min == 0

offset_max == 45

\* The slider positions tried.
SliderNSides == {n_sides_min, 8}

SliderDiameter == {FromInt(700), FromInt(diameter_max)}

SliderOffset == {FromInt(offset_min), FromInt(offset_max)}

\* PolygonApp::new
Init ==
    /\ n_sides = 8
    /\ diameter = FromInt(700)
    /\ offset_deg = Lit(45, 2)
    /\ zoom = Norm32(1, 0)
    /\ image_texture = NoTexture
    /\ crashed = ""
    /\ font_ok \in BOOLEAN
    /\ font = font_a
    /\ overflow_checks \in BOOLEAN
    /\ rgba = NoImage
    /\ prev = NoCall
    /\ points = NoPoints

SlideNSides(v) ==
    /\ crashed = ""
    /\ n_sides' = v
    /\ UNCHANGED <<diameter, offset_deg, zoom, image_texture, crashed>>
    /\ UNCHANGED <<build_vars, call_vars>>

SlideDiameter(v) ==
    /\ crashed = ""
    /\ diameter' = v
    /\ UNCHANGED <<n_sides, offset_deg, zoom, image_texture, crashed>>
    /\ UNCHANGED <<build_vars, call_vars>>

SlideOffset(v) ==
    /\ crashed = ""
    /\ offset_deg' = v
    /\ UNCHANGED <<n_sides, diameter, zoom, image_texture, crashed>>
    /\ UNCHANGED <<build_vars, call_vars>>

\* if ui.button("Generate").clicked(): render, upload, replace the texture.
\* A panic in create_image unwinds through update and ends the process.
ClickGenerate ==
    /\ crashed = ""
    /\ \E r \in {create_image(n_sides, diameter, offset_deg, font_ok, font, overflow_checks)} :
           IF r.status = "panic"
           THEN /\ crashed' = r.at
                /\ image_texture' = image_texture
           ELSE /\ crashed' = crashed
                /\ image_texture' = [size |-> <<r.img.width, r.img.height>>]
    /\ UNCHANGED <<n_sides, diameter, offset_deg, zoom>>
    /\ UNCHANGED <<build_vars, call_vars>>

zoom_step == Lit32(11, 10)

zoom_lo == Lit32(1, 10)

zoom_hi == Norm32(10, 0)

\* A clamp without its upper bound.
clamp_lower_only(x, lo, hi) ==
    Val({IF FLt(v, lo) THEN lo ELSE v : v \in {x}})

\* f32::clamp(min, max)
clamp(x, lo, hi) ==
    Val({IF FLt(v, lo) THEN lo ELSE IF FLt(hi, v) THEN hi ELSE v : v \in {x}})

\* self.zoom *= 1.1; self.zoom = self.zoom.clamp(0.1, 10.0);
zoom_in(z) == clamp(FMul32(z, zoom_step), zoom_lo, zoom_hi)

\* self.zoom /= 1.1; self.zoom = self.zoom.clamp(0.1, 10.0);
zoom_out(z) == clamp(FDiv32(z, zoom_step), zoom_lo, zoom_hi)

\* A frame in which the hovered image was clicked with the primary and/or the
\* secondary button; the image is shown only once a texture exists.
ImageClick(primary, secondary) ==
    /\ crashed = ""
    /\ image_texture # NoTexture
    /\ primary \/ secondary
    /\ LET z1 == IF primary THEN zoom_in(zoom) ELSE zoom
       IN  zoom' = IF secondary THEN zoom_out(z1) ELSE z1
    /\ UNCHANGED <<n_sides, diameter, offset_deg, image_texture, crashed>>
    /\ UNCHANGED <<build_vars, call_vars>>

Next ==
    \/ \E v \in SliderNSides : SlideNSides(v)
    \/ \E v \in SliderDiameter : SlideDiameter(v)
    \/ \E v \in SliderOffset : SlideOffset(v)
    \/ ClickGenerate
    \/ \E primary, secondary \in BOOLEAN : ImageClick(primary, secondary)

Spec == Init /\ [][Next]_vars

(* ------------------------------------------------------------------ *)
(* The rendering functions called directly, on arguments of any size   *)
(* ------------------------------------------------------------------ *)

ArgNSides == {0, 1, 3, 8, n_sides_max}

ArgDiameter ==
    { FromInt(-1004), FromInt(0), FromInt(diameter_min), FromInt(700), Lit(1701, 2),
      FromInt(diameter_max), Norm(2^MantBits - 1, 32 - MantBits), Norm(1, 32) }

ArgDiameterAgain == {FromInt(0), FromInt(diameter_max), Norm(1, 32)}

ArgOffset == {Norm(-57, -12), FromInt(-90), FromInt(0), FromInt(10), FromInt(370)}

ArgTextColor == {label_color, <<255, 128, 1, 255>>}

InitRender ==
    /\ n_sides \in ArgNSides
    /\ diameter \in ArgDiameter
    /\ offset_deg \in ArgOffset
    /\ zoom = Norm32(1, 0)
    /\ image_texture = NoTexture
    /\ crashed = ""
    /\ font_ok = TRUE
    /\ font \in Fonts
    /\ overflow_checks \in BOOLEAN
    /\ rgba = NoImage
    /\ prev = NoCall
    /\ points = NoPoints

\* generate_polygon_points(n_sides, diameter, offset_deg)
CallGeneratePoints ==
    /\ rgba = NoImage
    /\ ~points.called
    /\ points' = [called |-> TRUE,
                  value |-> generate_polygon_points(n_sides, diameter, offset_deg)]
    /\ UNCHANGED <<n_sides, diameter, offset_deg, zoom, image_texture, crashed>>
    /\ UNCHANGED <<build_vars, rgba, prev>>

\* create_image(n_sides, diameter, offset_deg)
CallCreateImage ==
    /\ rgba = NoImage
    /\ ~points.called
    /\ rgba' = create_image(n_sides, diameter, offset_deg, font_ok, font, overflow_checks)
    /\ UNCHANGED <<n_sides, diameter, offset_deg, zoom, image_texture, crashed>>
    /\ UNCHANGED <<build_vars, prev, points>>

\* A second create_image(n_sides, d, offset_deg): the same polygon, another diameter.
CallCreateImageAgain(d) ==
    /\ rgba.status = "ok"
    /\ prev = NoCall
    /\ Len(rgba.ops) > 0 /\ rgba.ops[Len(rgba.ops)][1] # "draw_text"
    /\ prev' = [status |-> rgba.status, diameter |-> diameter, width |-> rgba.img.width]
    /\ diameter' = d
    /\ rgba' = create_image(n_sides, d, offset_deg, font_ok, font, overflow_checks)
    /\ UNCHANGED <<n_sides, offset_deg, zoom, image_texture, crashed>>
    /\ UNCHANGED <<build_vars, points>>

\* draw_text(&mut img, text, x, y, scale, &font, color) on the returned canvas.
CallDrawText(x, y, color) ==
    /\ rgba.status = "ok"
    /\ prev = NoCall
    /\ Len(rgba.ops) > 0 /\ rgba.ops[Len(rgba.ops)][1] # "draw_text"
    /\ \E st \in {draw_text([img |-> rgba.img, blends |-> rgba.blends,
                             skipped |-> rgba.skipped, panic |-> ""],
                            x, y, font, color, overflow_checks)} :
           rgba' = IF st.panic # "" THEN Panicked(st.panic)
                   ELSE [rgba EXCEPT !.img = st.img, !.blends = st.blends,
                                     !.skipped = st.skipped,
                                     !.ops = Append(rgba.ops, <<"draw_text", 0>>)]
    /\ UNCHANGED <<n_sides, diameter, offset_deg, zoom, image_texture, crashed>>
    /\ UNCHANGED <<build_vars, prev, points>>

NextRender ==
    \/ CallGeneratePoints
    \/ CallCreateImage
    \/ \E d \in ArgDiameterAgain : CallCreateImageAgain(d)
    \/ \E x \in {-3, 494}, y \in {-4, 480}, c \in ArgTextColor : CallDrawText(x, y, c)

SpecRender == InitRender /\ [][NextRender]_vars

(* ------------------------------------------------------------------ *)
(* Properties                                                          *)
(* ------------------------------------------------------------------ *)

\* The float a with its fraction dropped (toward zero).
FTrunc(a) == IF a[2] >= 0 THEN a ELSE Norm(Sgn(a[1]) * (Abs(a[1]) \div 2^(-a[2])), 0)

FMax(a, b) == IF FLt(a, b) THEN b ELSE a

InCanvas(img, p) == p[1] >= 0 /\ p[1] < img.width /\ p[2] >= 0 /\ p[2] < img.height

Disc9 == {d \in (-3..3) \X (-3..3) : d[1] * d[1] + d[2] * d[2] <= 9}

\* a + b for a small b, in the integers; a coordinate within 1000 of an i32 limit
\* stays at that limit, far outside every canvas.
Off(a, b) ==
    IF a > I32Max - 1000 THEN I32Max
    ELSE IF a < I32Min + 1000 THEN I32Min
    ELSE a + b

FontPanic == "Font::try_from_bytes: unwrap on None"

\* C1: every canvas create_image returns is square and its side is
\* max(1000, d + 200), the diameter taken with its fraction dropped.
C1_SideIsMaxFloorMargin ==
    rgba.status = "ok" =>
        /\ rgba.img.width = rgba.img.height
        /\ FromInt(rgba.img.width) =
               FMax(FromInt(1000), FAdd(FTrunc(diameter), FromInt(200)))

\* C1: a canvas was returned for the diameter 2^32 and its side is the floor.
C1_WrappedSide ==
    /\ rgba.status = "ok"
    /\ diameter = Norm(1, 32)
    /\ ~overflow_checks
    /\ rgba.img.width = 1000

\* C2: of two canvases rendered for diameters d1 <= d2 the first is no wider than
\* the second, and neither is narrower than the floor of 1000.
C2_WidthMonotonic ==
    (prev.status = "ok" /\ rgba.status = "ok" /\ FLe(prev.diameter, diameter)) =>
        /\ prev.width <= rgba.img.width
        /\ prev.width >= 1000
        /\ rgba.img.width >= 1000

\* C2: a canvas 5200 wide was followed by one 1000 wide for a larger diameter.
C2_ShrunkCanvas ==
    /\ prev.status = "ok"
    /\ rgba.status = "ok"
    /\ FLt(prev.diameter, diameter)
    /\ prev.width = 5200
    /\ rgba.img.width = 1000

\* C3: a call of generate_polygon_points returns, for every n (n < 3 and n = 0
\* included) and every diameter (0 included), exactly n vertices, vertex i of the
\* loop at place i of the sequence.
C3_ExactlyNVerticesInOrder ==
    points.called =>
        /\ DOMAIN points.value = 1..n_sides
        /\ Len(points.value) = n_sides
        /\ \A k \in 1..n_sides :
               points.value[k] = polygon_point(k - 1, n_sides, diameter, offset_deg)

\* C3: the generator was called with fewer than three sides and diameter 0.
C3_DegenerateCall ==
    /\ points.called
    /\ n_sides = 1
    /\ diameter = <<0, 0>>
    /\ Len(points.value) = 1

\* C4: every stored vertex angle lies in [0, 360).
C4_AngleInRange ==
    points.called =>
        \A k \in 1..Len(points.value) :
            /\ ~FLt(points.value[k][3], <<0, 0>>)
            /\ FLt(points.value[k][3], FromInt(360))

\* C4: a vertex was stored with the angle 360 exactly.
C4_Angle360 ==
    /\ points.called
    /\ \E k \in 1..Len(points.value) : points.value[k][3] = FromInt(360)

LayerRank(kind) ==
    CASE kind = "fill"   -> 0
      [] kind = "circle" -> 1
      [] kind = "edge"   -> 2
      [] kind = "marker" -> 3
      [] OTHER           -> 4

\* C5: the draw operations of one render are in layer order (fill, circle, edges,
\* markers, labels): no marker is drawn after a label.
C5_LayerOrder ==
    rgba.status = "ok" =>
        \A i, j \in 1..Len(rgba.ops) :
            i < j => LayerRank(rgba.ops[i][1]) <= LayerRank(rgba.ops[j][1])

\* C5: a pixel a label blended to a colour other than red is red on the returned
\* canvas: a later vertex's marker was drawn over it.
C5_MarkerOverLabel ==
    /\ rgba.status = "ok"
    /\ rgba.ops[Len(rgba.ops)][1] = "label"
    /\ \E b \in rgba.blends :
           /\ b.out # red
           /\ <<b.pos[1], b.pos[2], red>> \in rgba.marker_writes
           /\ rgba.img.pixels[b.pos] = red

ByteEdge == {0, 1, 127, 128, 254, 255}

\* C7: every glyph pixel inside the canvas is blended per channel as
\* (src*a + dst*(255 - a)) / 255 with a in 0..255 (a = 255 gives src, a = 0 leaves
\* dst), the 16-bit sum stays within 65535, the destination alpha becomes 255; a
\* glyph pixel outside the canvas changes nothing, and the pixels of the same
\* glyph that are inside are blended all the same.
C7_BlendPerPixel ==
    /\ \A a, s, d \in ByteEdge :
           /\ ~blend_channel(s, d, a).overflow
           /\ blend_channel(s, d, a).value = (s * a + d * (255 - a)) \div 255
    /\ rgba.status = "panic" =>
           rgba.at \notin {"draw_text: u16 overflow", "get_pixel_mut: out of bounds"}
    /\ rgba.status = "ok" =>
           /\ \A b \in rgba.blends :
                  /\ InCanvas(rgba.img, b.pos)
                  /\ b.alpha \in 0..255
                  /\ b.out[4] = 255
                  /\ \A c \in 1..3 :
                         /\ b.src[c] * b.alpha + b.dst[c] * (255 - b.alpha) <= 65535
                         /\ b.out[c] =
                                (b.src[c] * b.alpha + b.dst[c] * (255 - b.alpha)) \div 255
                         /\ b.alpha = 255 => b.out[c] = b.src[c]
                         /\ b.alpha = 0 => b.out[c] = b.dst[c]
           /\ \A p \in rgba.skipped :
                  ~InCanvas(rgba.img, p) /\ p \notin DOMAIN rgba.img.pixels
           /\ \A p \in DOMAIN rgba.img.pixels : InCanvas(rgba.img, p)
           /\ \A k \in 1..Len(rgba.img_points) : \A g \in 1..Len(font) :
                  font[g].has_bb =>
                      \A c \in font[g].cover :
                          LET p == << Off(rgba.img_points[k][1], 6 + font[g].min[1] + c[1]),
                                      Off(rgba.img_points[k][2], font[g].min[2] + c[2] - 12) >>
                          IN  InCanvas(rgba.img, p) =>
                                  \E b \in rgba.blends : b.pos = p /\ b.src = label_color

\* C7: one glyph of a label had a pixel blended with partial coverage and, on the
\* same row, a pixel dropped for lying outside the canvas.
C7_GlyphPartlyClipped ==
    /\ rgba.status = "ok"
    /\ \E b \in rgba.blends : \E p \in rgba.skipped :
           /\ b.alpha \notin {0, 255}
           /\ p[2] = b.pos[2] - 1 \/ p[2] = b.pos[2] \/ p[2] = b.pos[2] + 1
           /\ p[1] - b.pos[1] \in 1..6

\* C8: when the font bytes do not parse, create_image returns no canvas, the
\* Generate click that called it ends the process, and no texture is ever put
\* in place of the one shown.
C8_FontFailureIsFatal ==
    ~font_ok =>
        /\ create_image(n_sides, diameter, offset_deg, font_ok, font,
                        overflow_checks).status = "panic"
        /\ image_texture = NoTexture
        /\ crashed \in {"", FontPanic}

\* C8: a Generate click ended the process on the font load.
C8_CrashedOnFont ==
    /\ ~font_ok
    /\ crashed = FontPanic
    /\ image_texture = NoTexture

ZoomInRange(z) == FLe(zoom_lo, z) /\ FLe(z, zoom_hi)

\* C9: from zoom = 1.0, through any clicks on the image, slider changes and
\* Generate clicks, the zoom stays in [0.1, 10.0]; a click whose step would leave
\* the range sets the zoom to the bound it crossed.
C9_ZoomClamped ==
    /\ ZoomInRange(zoom)
    /\ [][ /\ ZoomInRange(zoom')
           /\ (ImageClick(TRUE, FALSE) /\ FLt(zoom_hi, FMul32(zoom, zoom_step)))
                  => zoom' = zoom_hi
           /\ (ImageClick(FALSE, TRUE) /\ FLt(FDiv32(zoom, zoom_step), zoom_lo))
                  => zoom' = zoom_lo
           /\ (~ImageClick(TRUE, FALSE) /\ ~ImageClick(FALSE, TRUE)
                  /\ ~ImageClick(TRUE, TRUE)) => zoom' = zoom ]_vars

\* C9: left clicks took the zoom to its upper bound.
C9_ZoomAtUpperBound ==
    /\ image_texture # NoTexture
    /\ zoom = zoom_hi

\* C10: for a diameter the sliders allow (100..5000), every vertex of a returned
\* canvas has 3 <= px <= side - 4 and 3 <= py <= side - 4, and every pixel of its
\* marker disc is written.
C10_VerticesInsideCanvas ==
    (rgba.status = "ok" /\ FLe(FromInt(100), diameter) /\ FLe(diameter, FromInt(5000))) =>
        \A k \in 1..Len(rgba.img_points) :
            /\ 3 <= rgba.img_points[k][1]
            /\ rgba.img_points[k][1] <= rgba.img.width - 4
            /\ 3 <= rgba.img_points[k][2]
            /\ rgba.img_points[k][2] <= rgba.img.height - 4
            /\ \A d \in Disc9 :
                   <<rgba.img_points[k][1] + d[1], rgba.img_points[k][2] + d[2], red>>
                       \in rgba.marker_writes

\* C10: the largest polygon the sliders allow was rendered.
C10_LargestUiPolygon ==
    /\ rgba.status = "ok"
    /\ diameter = FromInt(5000)
    /\ Len(rgba.img_points) = 20
    /\ \E k \in 1..20 : rgba.img_points[k][1] >= rgba.img.width - 101

====
